---- MODULE Spec2Model ----
(***************************************************************************)
(* Verification model of the Telegram -> Discord webhook forwarder.        *)
(*                                                                         *)
(*   database.py  Database.get_webhook in front of cache.py SimpleCache    *)
(*   bot.py       TelegramBot: the NewMessage handler, the message queue,  *)
(*                process_message_queue, handle_message,                   *)
(*                send_to_discord_with_retry, send_to_discord              *)
(*                                                                         *)
(* The module holds one state space and several specifications over it:    *)
(* SpecCache, SpecDelivery, Spec (the whole pipeline), SpecTopic (the     *)
(* worker's topic detection on one message) and FairSpec (the pipeline     *)
(* with the worker's steps taken fairly).                                  *)
(***************************************************************************)
EXTENDS Integers, Sequences, FiniteSets, TLC

VARIABLES
    \* ---- database.py / cache.py
    enable_cache,   \* config.ENABLE_CACHE, read once in Database.__init__
    cache,          \* SimpleCache.cache: dict key -> (value, timestamp)
    store,          \* table tg_dc_webhook: (group_id, topic_id) -> webhook_url
    now,            \* time.time(), in units of the 0.5 s connection-retry sleep
    writes,         \* number of external writes made to the table so far
    lookups,        \* number of get_webhook calls made so far
    last,           \* observation of the most recent call made by Lookup
    failedKeys,     \* cache keys whose most recent get_webhook call failed
    \* ---- bot.py: one call of send_to_discord_with_retry
    call,           \* the arguments of the call in progress
    pcSend,         \* where the call stands: idle, attempt, sleep, done
    attempt,        \* the loop variable of "for attempt in range(max_retries)"
    outcomes,       \* what each awaited send_to_discord gave, in order
    sleeps,         \* the delays slept so far, in order
    ret,            \* the value returned by the call
    lastAttempt,    \* the most recent send: response, result, POST made
    \* ---- bot.py: the NewMessage handler and process_message_queue
    message_queue,  \* self.message_queue, an asyncio.Queue: events in order
    received,       \* number of NewMessage events given to the handler so far
    pcWorker,       \* where process_message_queue stands
    event,          \* the event the worker took from the queue
    hm,             \* handle_message's local variables
    avatar_files,   \* MEDIA_AVA_PATH: safe name -> missing, old or fresh
    log             \* how handle_message ended for each event, in order

cacheVars ==
    <<enable_cache, cache, store, now, writes, lookups, last, failedKeys>>

sendVars == <<call, pcSend, attempt, outcomes, sleeps, ret, lastAttempt>>

queueVars ==
    <<message_queue, received, pcWorker, event, hm, avatar_files, log>>

vars == <<cacheVars, sendVars, queueVars>>

\* What a step of one component leaves alone.
notCache == <<sendVars, queueVars>>

notSend == <<cacheVars, queueVars>>

(***************************************************************************)
(* Python values                                                           *)
(***************************************************************************)
\* Python's None where a string (an URL) is expected.
None == "None"

\* cursor.fetchone() when the SELECT matched no row.
NoRow == "NoRow"

\* A key that is not in the SimpleCache dict.
NoEntry == [value |-> "NoEntry", timestamp |-> -1]

Min(a, b) == IF a <= b THEN a ELSE b

(***************************************************************************)
(* Bounds of the model                                                     *)
(***************************************************************************)
\* The clock stops advancing here.
MaxTime == 3

\* External writes (administration) made to the table during a run.
MaxWrites == 1

\* Calls of get_webhook during a run of the cache on its own.
MaxLookups == 2

\* send_to_discord_with_retry is called with max_retries in 1..MaxRetries.
MaxRetries == 3

\* NewMessage events that arrive in a run.
MaxEvents == 2

(***************************************************************************)
(* Program constants                                                       *)
(***************************************************************************)
\* config.CACHE_TTL (an environment setting), in clock units.
CACHE_TTL == 2

\* Database.get_connection: max_retries = 3.
max_retries_connect == 3

\* The wildcard topic of a route.
WILDCARD == -1

\* send_to_discord: username[:80], content[:2000], embeds[:10].
MAX_USERNAME == 80

MAX_CONTENT == 2000

MAX_EMBEDS == 10

\* send_to_discord_with_retry: wait_time = (attempt + 1) * 2.
BACKOFF_UNIT == 2

\* send_to_discord_with_retry: max_retries=3, the default handle_message uses.
DEFAULT_MAX_RETRIES == 3

\* config.QUEUE_MAX_SIZE (1000), scaled down
QUEUE_MAX_SIZE == 1

\* config.DISCORD_RATE_LIMIT, "Max concurrent Discord requests"
DISCORD_RATE_LIMIT == 5

(***************************************************************************)
(* Domains the inputs are drawn from                                       *)
(***************************************************************************)
\* Fully qualified group ids (-100...): the group whose routes are looked
\* up, and another group with routes of its own.
Groups == {-1001, -1002}

LookupGroups == {-1001}

\* Topic ids get_webhook is called with.
LookupTopics == {0, 7}

\* Topic ids a row of the table can carry.
StoreTopics == {WILDCARD, 0, 7}

Urls == {"https://hook.example/a", "https://hook.example/b"}

\* The endpoint an external write puts into a row.
NewUrl == "https://hook.example/b"

\* The rows the table can hold: every topic of the group looked up, and
\* the wildcard route of the other group.
StoreKeys ==
    (LookupGroups \X StoreTopics) \cup ((Groups \ LookupGroups) \X {WILDCARD})

(***************************************************************************)
(* str() of an integer and the f-string that builds the cache key          *)
(***************************************************************************)
Digits == <<"0", "1", "2", "3", "4", "5", "6", "7", "8", "9">>

RECURSIVE NatStr(_)
NatStr(n) ==
    IF n < 10 THEN <<Digits[n + 1]>>
    ELSE NatStr(n \div 10) \o <<Digits[(n % 10) + 1]>>

\* str(n) for an int: a sequence of characters.
DecimalStr(n) == IF n < 0 THEN <<"-">> \o NatStr(-n) ELSE NatStr(n)

\* str(n), tabulated for the ids of the model.
StrTable == [n \in Groups \cup StoreTopics \cup LookupTopics |-> DecimalStr(n)]

IntStr(n) == IF n \in DOMAIN StrTable THEN StrTable[n] ELSE DecimalStr(n)

\* Python's None where an integer (a message id) is expected.
NoneId == -999999

\* str(x) of an optional integer, as an f-string formats it.
PyStr(x) == IF x = NoneId THEN <<"N", "o", "n", "e">> ELSE IntStr(x)

\* cache_key = f"webhook_{group_id}_{topic_id}"
CacheKey(group_id, topic_id) ==
    <<"webhook", "_">> \o IntStr(group_id) \o <<"_">> \o PyStr(topic_id)

(***************************************************************************)
(* cache.py: SimpleCache                                                   *)
(***************************************************************************)
\* if time.time() - timestamp < self.ttl
CacheFresh_Inclusive(entry, clock) == clock - entry.timestamp <= CACHE_TTL

CacheFresh(entry, clock) == clock - entry.timestamp < CACHE_TTL

\* SimpleCache.get: the value returned and the dict afterwards (an expired
\* entry is deleted, and None is returned for it as for a missing key).
SimpleCache_get_NeverHits(c, key, clock) == [value |-> None, cache |-> c]

SimpleCache_get(c, key, clock) ==
    IF key \in DOMAIN c
    THEN IF CacheFresh(c[key], clock)
         THEN [value |-> c[key].value, cache |-> c]
         ELSE [value |-> None,
               cache |-> [k \in (DOMAIN c) \ {key} |-> c[k]]]
    ELSE [value |-> None, cache |-> c]

\* SimpleCache.set: self.cache[key] = (value, time.time())
SimpleCache_set(c, key, value, clock) ==
    [k \in (DOMAIN c) \cup {key} |->
        IF k = key THEN [value |-> value, timestamp |-> clock] ELSE c[k]]

(***************************************************************************)
(* database.py: Database                                                   *)
(***************************************************************************)
\* Database.get_connection: up to max_retries calls of pool.get_connection(),
\* time.sleep(0.5) after each failed one but the last, whose Error is raised
\* to the caller. failing = how many calls in a row fail from now on.
get_connection(failing) ==
    IF failing < max_retries_connect
    THEN [ok |-> TRUE, connects |-> failing + 1, slept |-> failing]
    ELSE [ok |-> FALSE, connects |-> max_retries_connect,
          slept |-> max_retries_connect - 1]

\* cursor.execute(SELECT webhook_url ... WHERE group_id = g AND topic_id = t)
\* followed by cursor.fetchone(): the row's webhook_url, or NoRow.
fetchone(rows, group_id, topic_id) ==
    IF <<group_id, topic_id>> \in DOMAIN rows
    THEN rows[<<group_id, topic_id>>]
    ELSE NoRow

\* if not result and topic_id != 0: -- the wildcard query is issued
TryWildcard_AnyTopic(result, topic_id) == result = NoRow

TryWildcard(result, topic_id) == result = NoRow /\ topic_id # 0

\* The except branch of get_webhook: log and return None.
OnStoreError_CachesNone(c, enabled, cache_key, clock) ==
    IF enabled THEN SimpleCache_set(c, cache_key, None, clock) ELSE c

OnStoreError(c, enabled, cache_key, clock) == c

\* Database.get_webhook(group_id, topic_id) called at time clock with the
\* dict c and the table rows. failing: as in get_connection; execFail: which
\* cursor.execute raises Error (0: none, 1: the exact query, 2: the wildcard
\* query). Gives the returned value, the dict and the clock afterwards, and
\* what was sent to the store.
get_webhook(c, enabled, rows, clock, group_id, topic_id, failing, execFail) ==
    LET cache_key == CacheKey(group_id, topic_id)
        got == IF enabled THEN SimpleCache_get(c, cache_key, clock)
               ELSE [value |-> None, cache |-> c]
        conn == get_connection(failing)
        t1 == clock + conn.slept
        exactQ == <<group_id, topic_id>>
        wildQ == <<group_id, WILDCARD>>
        exact == fetchone(rows, group_id, topic_id)
        wild == TryWildcard(exact, topic_id)
        result == IF wild THEN fetchone(rows, group_id, WILDCARD) ELSE exact
        webhook_url == IF result # NoRow THEN result ELSE None
        error(queries) ==
            [result |-> None,
             cache |-> OnStoreError(got.cache, enabled, cache_key, t1),
             connects |-> conn.connects, queries |-> queries,
             failed |-> TRUE, clock |-> t1]
    IN  IF enabled /\ got.value # None
        THEN [result |-> got.value, cache |-> got.cache, connects |-> 0,
              queries |-> <<>>, failed |-> FALSE, clock |-> clock]
        ELSE IF ~conn.ok THEN error(<<>>)
        ELSE IF execFail = 1 THEN error(<<exactQ>>)
        ELSE IF execFail = 2 /\ wild THEN error(<<exactQ, wildQ>>)
        ELSE [result |-> webhook_url,
              cache |-> IF enabled
                        THEN SimpleCache_set(got.cache, cache_key, webhook_url, t1)
                        ELSE got.cache,
              connects |-> conn.connects,
              queries |-> IF wild THEN <<exactQ, wildQ>> ELSE <<exactQ>>,
              failed |-> FALSE, clock |-> t1]

\* The failure inputs are read only as far as the call gets: none on a
\* cache hit, no execute failure without a connection, no failure of a
\* wildcard query that is not issued.
InputsUsed(r, failing, execFail) ==
    /\ r.connects = 0 => failing = 0 /\ execFail = 0
    /\ (r.connects > 0 /\ r.queries = <<>>) => execFail = 0
    /\ execFail = 1 => r.failed
    /\ execFail = 2 => r.failed /\ Len(r.queries) = 2

EntryOf(c, key) == IF key \in DOMAIN c THEN c[key] ELSE NoEntry

(***************************************************************************)
(* bot.py: handle_message -- the group id and the topic of a message       *)
(***************************************************************************)
\* bool(x) of an optional integer: None and 0 are false.
Truthy(x) == x # NoneId /\ x # 0

\* s.startswith(prefix)
StartsWith(str, prefix) ==
    Len(str) >= Len(prefix) /\ SubSeq(str, 1, Len(prefix)) = prefix

IsDigits(str) ==
    str # <<>> /\ \A i \in 1..Len(str) : \E d \in 1..10 : Digits[d] = str[i]

DigitValue(c) == (CHOOSE d \in 1..10 : Digits[d] = c) - 1

RECURSIVE NatValue(_)
NatValue(str) ==
    IF str = <<>> THEN 0
    ELSE NatValue(SubSeq(str, 1, Len(str) - 1)) * 10 + DigitValue(str[Len(str)])

\* int(str): the integer, or ValueError for anything but an optional sign
\* followed by digits.
ParseInt(str) ==
    IF str # <<>> /\ str[1] = "-" /\ IsDigits(Tail(str))
    THEN [ok |-> TRUE, value |-> 0 - NatValue(Tail(str))]
    ELSE IF IsDigits(str)
    THEN [ok |-> TRUE, value |-> NatValue(str)]
    ELSE [ok |-> FALSE, value |-> 0]

Minus100 == <<"-", "1", "0", "0">>

\* if not str(chat_id).startswith('-100'): chat_id = int(f"-100{chat_id}")
NormalizeChatId(chat_id) ==
    IF StartsWith(IntStr(chat_id), Minus100)
    THEN [ok |-> TRUE, value |-> chat_id]
    ELSE ParseInt(Minus100 \o IntStr(chat_id))

\* message.reply_to: absent, or a reply header.
NoReply ==
    [present |-> FALSE, forum_topic |-> FALSE,
     reply_to_msg_id |-> NoneId, reply_to_top_id |-> NoneId]

ReplyHeader(forum_topic, reply_to_msg_id, reply_to_top_id) ==
    [present |-> TRUE, forum_topic |-> forum_topic,
     reply_to_msg_id |-> reply_to_msg_id, reply_to_top_id |-> reply_to_top_id]

\* What client.get_messages(chat_id, ids=...) gives: an exception, None, or
\* the message, of which only reply_to is read.
FetchRaises == [kind |-> "raises", reply_to |-> NoReply]

FetchNone == [kind |-> "none", reply_to |-> NoReply]

Fetched(reply_to) == [kind |-> "message", reply_to |-> reply_to]

\* The topic traced from the fetched top message (lines 171-185); topic_id
\* keeps its initial 0 where no branch assigns it.
TraceTopic_NoTrace(top_message, potential_topic_id) == potential_topic_id

TraceTopic(top_message, potential_topic_id) ==
    IF top_message.kind = "raises" THEN potential_topic_id
    ELSE IF top_message.kind = "none" THEN 0
    ELSE IF top_message.reply_to.present
    THEN IF top_message.reply_to.forum_topic
         THEN top_message.reply_to.reply_to_msg_id
         ELSE IF Truthy(top_message.reply_to.reply_to_top_id)
         THEN top_message.reply_to.reply_to_top_id
         ELSE potential_topic_id
    ELSE potential_topic_id

\* SMART TOPIC DETECTION (lines 150-189): the topic id, and whether
\* get_messages was awaited.
DetectTopic_TopFirst(reply, top_message) ==
    IF ~reply.present THEN [topic_id |-> 0, fetched |-> FALSE]
    ELSE IF Truthy(reply.reply_to_top_id)
    THEN [topic_id |-> TraceTopic(top_message, reply.reply_to_top_id),
          fetched |-> TRUE]
    ELSE IF reply.forum_topic /\ Truthy(reply.reply_to_msg_id)
    THEN [topic_id |-> reply.reply_to_msg_id, fetched |-> FALSE]
    ELSE [topic_id |-> 0, fetched |-> FALSE]

DetectTopic(reply, top_message) ==
    IF ~reply.present THEN [topic_id |-> 0, fetched |-> FALSE]
    ELSE IF reply.forum_topic
    THEN [topic_id |-> IF Truthy(reply.reply_to_msg_id)
                       THEN reply.reply_to_msg_id ELSE 0,
          fetched |-> FALSE]
    ELSE IF Truthy(reply.reply_to_top_id)
    THEN [topic_id |-> TraceTopic(top_message, reply.reply_to_top_id),
          fetched |-> TRUE]
    ELSE [topic_id |-> 0, fetched |-> FALSE]

(***************************************************************************)
(* bot.py: get_sender_name, get_avatar_url, handle_media                   *)
(***************************************************************************)
\* Strings are sequences of characters; a name attribute that is None is
\* the empty sequence, which "x or ''" and "if x" treat alike.
Space == " "

RECURSIVE LStrip(_)
LStrip(str) ==
    IF str # <<>> /\ Head(str) = Space THEN LStrip(Tail(str)) ELSE str

RECURSIVE RStrip(_)
RStrip(str) ==
    IF str # <<>> /\ str[Len(str)] = Space
    THEN RStrip(SubSeq(str, 1, Len(str) - 1))
    ELSE str

\* str.strip()
Strip(str) == LStrip(RStrip(str))

UnknownUser ==
    <<"U", "n", "k", "n", "o", "w", "n", " ", "U", "s", "e", "r">>

\* event.get_sender(): a user, a channel, or None.
User(first_name, last_name) ==
    [kind |-> "user", first_name |-> first_name,
     last_name |-> last_name, title |-> <<>>]

Channel(title) ==
    [kind |-> "channel", first_name |-> <<>>,
     last_name |-> <<>>, title |-> title]

NoSender == [kind |-> "none", first_name |-> <<>>,
             last_name |-> <<>>, title |-> <<>>]

get_sender_name(sender) ==
    IF sender.kind = "user"
    THEN LET name == IF sender.last_name # <<>>
                     THEN sender.first_name \o <<Space>> \o sender.last_name
                     ELSE sender.first_name
         IN  IF Strip(name) # <<>> THEN Strip(name) ELSE UnknownUser
    ELSE IF sender.kind = "channel" THEN sender.title
    ELSE UnknownUser

\* c.isalnum() for the characters that occur in the names below.
Alnum ==
    {"A", "D", "L", "N", "U", "a", "e", "k", "n", "o", "r", "s", "w",
     "0", "1", "2", "3", "4", "5", "6", "7", "8", "9"}

\* safe_name: keep alphanumerics, spaces and underscores; rstrip; spaces
\* become underscores.
SafeName(sender_name) ==
    LET kept == SelectSeq(sender_name,
                          LAMBDA c : c \in Alnum \/ c \in {Space, "_"})
        trimmed == RStrip(kept)
    IN  [i \in 1..Len(trimmed) |->
            IF trimmed[i] = Space THEN "_" ELSE trimmed[i]]

AnnLee == User(<<"A", "n", "n">>, <<"L", "e", "e">>)

DNews == Channel(<<"D", " ", "N", "e", "w", "s", "!">>)

Senders == {AnnLee, DNews, NoSender}

SafeNames == {SafeName(get_sender_name(sender)) : sender \in Senders}

\* f"{self.base_url}/ava/{safe_name}.jpg", tabulated over SafeNames.
AvatarUrl(safe_name) ==
    CASE safe_name = <<"A", "n", "n", "_", "L", "e", "e">>
            -> "http://host/ava/Ann_Lee.jpg"
      [] safe_name = <<"D", "_", "N", "e", "w", "s">>
            -> "http://host/ava/D_News.jpg"
      [] OTHER -> "http://host/ava/Unknown_User.jpg"

\* download_profile_photo: the file is written, there is no photo (None is
\* returned and nothing is written), or the call raises.
PhotoOutcomes == {"written", "nophoto", "raises"}

\* get_avatar_url(sender, sender_name) with the avatar files as they are:
\* the value returned, the files afterwards, and whether the download was
\* awaited. A file is "missing", "old" (older than one day) or "fresh".
get_avatar_url_NoExistsCheck(files, sender_name, photo) ==
    LET safe_name == SafeName(sender_name)
        downloads == files[safe_name] \in {"missing", "old"}
        after == IF downloads /\ photo = "written"
                 THEN [files EXCEPT ![safe_name] = "fresh"] ELSE files
    IN  IF downloads /\ photo = "raises"
        THEN [url |-> None, files |-> files, downloaded |-> TRUE]
        ELSE [url |-> AvatarUrl(safe_name),
              files |-> after, downloaded |-> downloads]

get_avatar_url(files, sender_name, photo) ==
    LET safe_name == SafeName(sender_name)
        downloads == files[safe_name] \in {"missing", "old"}
        after == IF downloads /\ photo = "written"
                 THEN [files EXCEPT ![safe_name] = "fresh"] ELSE files
    IN  IF downloads /\ photo = "raises"
        THEN [url |-> None, files |-> files, downloaded |-> TRUE]
        ELSE [url |-> IF after[safe_name] # "missing"
                      THEN AvatarUrl(safe_name) ELSE None,
              files |-> after, downloaded |-> downloads]

\* message.media: nothing, a photo, a document with a mime type, or another
\* kind of media (web page preview, poll, location, ...).
NoMedia == [kind |-> "none", mime |-> ""]

Photo == [kind |-> "photo", mime |-> ""]

Document(mime) == [kind |-> "document", mime |-> mime]

OtherMedia == [kind |-> "other", mime |-> ""]

\* The extension chosen from the mime type (lines 332-345), tabulated; a
\* document of another type is taken to carry no file name attribute.
Extension(mime) ==
    CASE mime = "image/jpeg" -> ".jpg"
      [] mime = "image/png" -> ".png"
      [] mime = "image/webp" -> ".jpg"
      [] mime = "video/mp4" -> ".mp4"
      [] OTHER -> ".file"

DownloadOutcomes == {"written", "raises"}

\* handle_media(message): the media URL, as the parts of
\* f"{base_url}/media/{timestamp}_{message.id}{ext}", or None (<<>>); and
\* whether download_media was awaited.
handle_media_IgnoresFailure(message_id, media, download) ==
    IF media.kind \in {"photo", "document"}
    THEN [url |-> <<"media", message_id,
                    IF media.kind = "photo"
                    THEN ".jpg" ELSE Extension(media.mime)>>,
          downloaded |-> TRUE]
    ELSE [url |-> <<>>, downloaded |-> FALSE]

handle_media(message_id, media, download) ==
    IF media.kind \in {"photo", "document"}
    THEN [url |-> IF download = "raises" THEN <<>>
                  ELSE <<"media", message_id,
                         IF media.kind = "photo"
                         THEN ".jpg" ELSE Extension(media.mime)>>,
          downloaded |-> TRUE]
    ELSE [url |-> <<>>, downloaded |-> FALSE]

\* content and embeds as handle_message prepares them (lines 225-243, 252).
Prepare(text, media_url) ==
    IF media_url # <<>>
    THEN [content |-> <<>>,
          embeds |-> <<IF text # <<>>
                       THEN [image |-> [url |-> media_url],
                             description |-> text]
                       ELSE [image |-> [url |-> media_url]]>>]
    ELSE [content |-> text, embeds |-> <<>>]

(***************************************************************************)
(* The route cache on its own: lookups, the clock, external writes         *)
(***************************************************************************)
\* Contents of the table at start-up: only the wildcard route of the group;
\* or an exact route, the wildcard route, and the other group's.
EmptyTable == [k \in StoreKeys |-> NoRow]

InitialTables ==
    {[EmptyTable EXCEPT ![<<-1001, WILDCARD>>] = "https://hook.example/a"],
     [EmptyTable EXCEPT ![<<-1001, 7>>] = "https://hook.example/a",
                        ![<<-1001, WILDCARD>>] = "https://hook.example/b",
                        ![<<-1002, WILDCARD>>] = "https://hook.example/b"]}

NoLookup ==
    [valid |-> FALSE, group_id |-> 0, topic_id |-> 0, at |-> 0,
     entryBefore |-> NoEntry, exactRow |-> NoRow, wildRow |-> NoRow,
     contacted |-> FALSE, queries |-> <<>>, failed |-> FALSE,
     result |-> None, afterFailure |-> FALSE]

\* No call of send_to_discord_with_retry in progress.
NoCall ==
    [webhook_url |-> None, username |-> <<>>, avatar_url |-> None,
     content |-> <<>>, embeds |-> <<>>, max_retries |-> 0]

NoAttempt ==
    [made |-> FALSE, resp |-> [kind |-> "none", status |-> 0],
     result |-> "none", posted |-> FALSE, url |-> None, payload |-> <<>>]

SendIdle ==
    /\ call = NoCall
    /\ pcSend = "idle"
    /\ attempt = 0
    /\ outcomes = <<>>
    /\ sleeps = <<>>
    /\ ret = "none"
    /\ lastAttempt = NoAttempt

\* A NewMessage event: its arrival number and what handle_message reads of
\* it (event.chat_id, message.reply_to, message.message, message.media) and
\* the sender that event.get_sender() gives.
NoEvent ==
    [id |-> 0, chat_id |-> 0, reply_to |-> NoReply, text |-> <<>>,
     media |-> NoMedia, sender |-> NoSender]

\* handle_message's locals before anything is assigned; seconds is
\* FloodWaitError.seconds once one is caught. Observations ride along:
\* fetched, whether get_messages was awaited, and top_message, what it
\* gave; lookup_failed, whether get_webhook ended in its except branch;
\* photo and download, what download_profile_photo and download_media met
\* ("none" while not awaited).
NoLocals ==
    [chat_id |-> 0, topic_id |-> 0, fetched |-> FALSE,
     top_message |-> FetchNone, webhook_url |-> None,
     lookup_failed |-> FALSE, photo |-> "none", download |-> "none",
     seconds |-> 0]

\* The avatar directory at start: one avatar from an earlier run, older
\* than a day; none for the other names.
InitialFiles ==
    [n \in SafeNames |->
        IF n = SafeName(get_sender_name(AnnLee)) THEN "old" ELSE "missing"]

\* The queue is empty and the worker waits in message_queue.get().
QueueIdle ==
    /\ message_queue = <<>>
    /\ received = 0
    /\ pcWorker = "get"
    /\ event = NoEvent
    /\ hm = NoLocals
    /\ avatar_files = InitialFiles
    /\ log = <<>>

InitCache ==
    /\ SendIdle
    /\ QueueIdle
    /\ enable_cache \in BOOLEAN
    /\ cache = <<>>
    /\ store \in InitialTables
    /\ now = 0
    /\ writes = 0
    /\ lookups = 0
    /\ last = NoLookup
    /\ failedKeys = {}

\* One call of Database.get_webhook, start to return.
Lookup ==
    \E group_id \in LookupGroups, topic_id \in LookupTopics,
       failing \in 0..max_retries_connect, execFail \in 0..2 :
        \E key \in {CacheKey(group_id, topic_id)},
           r \in {get_webhook(cache, enable_cache, store, now,
                              group_id, topic_id, failing, execFail)} :
            /\ lookups < MaxLookups
            /\ InputsUsed(r, failing, execFail)
            /\ r.clock <= MaxTime
            /\ lookups' = lookups + 1
            /\ cache' = r.cache
            /\ now' = r.clock
            /\ last' = [valid |-> TRUE, group_id |-> group_id,
                        topic_id |-> topic_id, at |-> now,
                        entryBefore |-> EntryOf(cache, key),
                        exactRow |-> store[<<group_id, topic_id>>],
                        wildRow |-> store[<<group_id, WILDCARD>>],
                        contacted |-> r.connects > 0,
                        queries |-> r.queries,
                        failed |-> r.failed, result |-> r.result,
                        afterFailure |-> key \in failedKeys]
            /\ failedKeys' = IF r.failed THEN failedKeys \cup {key}
                             ELSE failedKeys \ {key}
            /\ UNCHANGED <<enable_cache, store, writes>>
            /\ UNCHANGED notCache

\* Time passes.
Tick ==
    /\ now < MaxTime
    /\ now' = now + 1
    /\ UNCHANGED <<enable_cache, cache, store, writes, lookups, last, failedKeys>>
    /\ UNCHANGED notCache

\* External administration inserts, changes or deletes a row of the table.
StoreWrite ==
    /\ writes < MaxWrites
    /\ \E k \in StoreKeys, v \in {NewUrl, NoRow} :
        /\ store[k] # v
        /\ store' = [store EXCEPT ![k] = v]
    /\ writes' = writes + 1
    /\ UNCHANGED <<enable_cache, cache, now, lookups, last, failedKeys>>
    /\ UNCHANGED notCache

NextCache == Lookup \/ Tick \/ StoreWrite

SpecCache == InitCache /\ [][NextCache]_vars

(***************************************************************************)
(* Claims about the route cache (SpecCache)                                *)
(***************************************************************************)
LastKey == CacheKey(last.group_id, last.topic_id)

\* The dict held an entry for the key when the last call started, and its
\* age then.
HadEntry == last.entryBefore # NoEntry

AgeBefore == last.at - last.entryBefore.timestamp

\* What the table answered at the time of the last call: the exact row,
\* else for a non-zero topic the group's wildcard row, else nothing.
StoreAnswer ==
    IF last.exactRow # NoRow THEN last.exactRow
    ELSE IF last.topic_id # 0 /\ last.wildRow # NoRow THEN last.wildRow
    ELSE None

\* C1: negative lookups are cached. A lookup of a key without exact or
\* wildcard route, made with the cache enabled and the store reachable while
\* the dict holds a None entry for the key younger than the TTL (written by
\* the previous lookup of the key, which queried the store), is answered
\* from the cache: it does not contact the store, and returns None.
C1_NegativeLookupCached ==
    (/\ last.valid /\ enable_cache /\ ~last.failed
     /\ HadEntry /\ last.entryBefore.value = None
     /\ AgeBefore < CACHE_TTL
     /\ last.exactRow = NoRow /\ last.wildRow = NoRow)
    => (~last.contacted /\ last.queries = <<>> /\ last.result = None)

\* C2: wildcard fallback. A lookup that queries the store asks first for the
\* exact (group, topic) row; it asks for the wildcard row only when the exact
\* row is absent and the topic is not 0, and only for its own group; and it
\* returns the exact row's endpoint, else the wildcard's (non-zero topic),
\* else None. With only (G, -1) -> E in the table: E for topic 7, None for
\* topic 0.
C2_WildcardFallback ==
    (last.valid /\ last.queries # <<>>) =>
        /\ last.queries[1] = <<last.group_id, last.topic_id>>
        /\ Len(last.queries) <= 2
        /\ Len(last.queries) = 2 =>
            /\ last.queries[2] = <<last.group_id, WILDCARD>>
            /\ last.exactRow = NoRow
            /\ last.topic_id # 0
        /\ \A i \in 1..Len(last.queries) : last.queries[i][1] = last.group_id
        /\ ~last.failed =>
            /\ last.result = StoreAnswer
            /\ Len(last.queries) = 2 <=>
                (last.exactRow = NoRow /\ last.topic_id # 0)
            /\ (last.exactRow = NoRow /\ last.wildRow \in Urls) =>
                /\ last.topic_id = 7 => last.result = last.wildRow
                /\ last.topic_id = 0 => last.result = None

\* C2 witness: the table holds only (G, -1) -> E and lookup(G, 7), after an
\* exact and a wildcard query, has returned E.
C2_Witness ==
    /\ last.valid /\ ~last.failed
    /\ writes = 0
    /\ store = [EmptyTable EXCEPT ![<<-1001, WILDCARD>>] = "https://hook.example/a"]
    /\ last.group_id = -1001 /\ last.topic_id = 7
    /\ last.queries = <<(<<-1001, 7>>), (<<-1001, WILDCARD>>)>>
    /\ last.result = "https://hook.example/a"

\* C3: no entry is served at age >= ttl. A lookup made when the key's entry
\* (an endpoint or None) has age >= ttl contacts the store, and when the
\* store answers it returns the store's current answer.
C3_NeverStaleBeyondTtl ==
    (last.valid /\ HadEntry /\ AgeBefore >= CACHE_TTL) =>
        /\ last.contacted
        /\ ~last.failed =>
            (last.queries # <<>> /\ last.result = StoreAnswer)

\* C3 witness: an expired entry held an endpoint, the table has changed
\* since, and the lookup returned the table's answer, not the entry's.
C3_Witness ==
    /\ last.valid /\ HadEntry /\ AgeBefore >= CACHE_TTL
    /\ last.entryBefore.value \in Urls
    /\ ~last.failed
    /\ last.result = StoreAnswer
    /\ last.result # last.entryBefore.value

\* C4: positive cache hit. A lookup made while the key's entry holds an
\* endpoint E and is younger than ttl returns E and sends nothing to the
\* store, whatever the table holds.
C4_PositiveCacheHit ==
    (last.valid /\ HadEntry /\ last.entryBefore.value # None
        /\ AgeBefore < CACHE_TTL) =>
        /\ ~last.contacted
        /\ last.queries = <<>>
        /\ ~last.failed
        /\ last.result = last.entryBefore.value

\* C4 witness: a hit returned the cached endpoint while the table answered
\* something else for the key.
C4_Witness ==
    /\ last.valid /\ HadEntry /\ last.entryBefore.value \in Urls
    /\ AgeBefore < CACHE_TTL
    /\ last.result = last.entryBefore.value
    /\ StoreAnswer # last.result

\* C5: store unavailable. A lookup whose store access fails returns None and
\* writes nothing into the cache for its key (the entry is as the cache read
\* left it: a young entry kept, anything else absent); the next lookup of
\* the key contacts the store again and, when the store answers, returns the
\* store's answer.
C5_StoreFailureNotCached ==
    /\ (last.valid /\ last.failed) =>
        /\ last.result = None
        /\ last.contacted
        /\ EntryOf(cache, LastKey) =
            (IF HadEntry /\ AgeBefore < CACHE_TTL
             THEN last.entryBefore ELSE NoEntry)
        /\ EntryOf(cache, LastKey) # NoEntry =>
            EntryOf(cache, LastKey).value = None
    /\ (last.valid /\ last.afterFailure) =>
        /\ last.contacted
        /\ ~last.failed =>
            (last.queries # <<>> /\ last.result = StoreAnswer)

\* C5 witness: the lookup after a failed one found the store recovered and
\* returned the stored endpoint.
C5_Witness ==
    /\ last.valid /\ last.afterFailure /\ ~last.failed
    /\ enable_cache
    /\ last.result \in Urls

(***************************************************************************)
(* bot.py: send_to_discord                                                 *)
(***************************************************************************)
\* seq[:n]
Slice(seq, n) == SubSeq(seq, 1, Min(n, Len(seq)))

\* "username": username[:80]
ClampUsername(username) == Slice(username, MAX_USERNAME)

\* payload["content"] = content[:2000]
ClampContent_Unclamped(content) == content

ClampContent(content) == Slice(content, MAX_CONTENT)

\* payload["embeds"] = embeds[:10]
ClampEmbeds(embeds) == Slice(embeds, MAX_EMBEDS)

\* The payload dict: username always; avatar_url, content and embeds only
\* when truthy (None, "" and [] are not).
Payload_EmbedsAlways(username, avatar_url, content, embeds) ==
    LET p0 == "username" :> ClampUsername(username)
        p1 == IF avatar_url # None
              THEN p0 @@ ("avatar_url" :> avatar_url) ELSE p0
        p2 == IF content # <<>>
              THEN p1 @@ ("content" :> ClampContent(content)) ELSE p1
    IN  p2 @@ ("embeds" :> ClampEmbeds(embeds))

Payload(username, avatar_url, content, embeds) ==
    LET p0 == "username" :> ClampUsername(username)
        p1 == IF avatar_url # None
              THEN p0 @@ ("avatar_url" :> avatar_url) ELSE p0
        p2 == IF content # <<>>
              THEN p1 @@ ("content" :> ClampContent(content)) ELSE p1
    IN  IF embeds # <<>>
        THEN p2 @@ ("embeds" :> ClampEmbeds(embeds)) ELSE p2

\* if response.status not in [200, 204]: return False
IsSuccess_Any2xx(status) == status >= 200 /\ status < 300

IsSuccess(status) == status \in {200, 204}

\* What the POST meets: a response with a status, asyncio.TimeoutError, or
\* another exception (connection refused, invalid URL, ...).
Statuses == {200, 201, 204, 429}

Responses ==
    [kind : {"status"}, status : Statuses]
        \cup {[kind |-> "timeout", status |-> 0],
              [kind |-> "error", status |-> 0]}

\* send_to_discord(webhook_url, username, avatar_url, content, embeds) when
\* the POST meets resp: the value returned, and the POST made.
send_to_discord(webhook_url, username, avatar_url, content, embeds, resp) ==
    LET payload == Payload(username, avatar_url, content, embeds)
    IN  [result |-> IF resp.kind = "status" /\ IsSuccess(resp.status)
                    THEN "True" ELSE "False",
         posted |-> TRUE, url |-> webhook_url, payload |-> payload]

(***************************************************************************)
(* bot.py: send_to_discord_with_retry                                      *)
(***************************************************************************)
\* An awaited send that lets an exception escape: the case the except branch
\* of the retry loop handles. send_to_discord as written never does.
Raises == [kind |-> "raises", status |-> 0]

AttemptInputs == Responses \cup {Raises}

\* wait_time = (attempt + 1) * 2
WaitTime_Constant(i) == BACKOFF_UNIT

WaitTime(i) == (i + 1) * BACKOFF_UNIT

\* if attempt < max_retries - 1: sleep before the next attempt
SleepsAfter_Always(i, max_retries) == TRUE

SleepsAfter(i, max_retries) == i < max_retries - 1

\* Text of n characters; position i holds the letter i mod 7.
Letters == <<"a", "b", "c", "d", "e", "f", "g">>

Text(n) == [i \in 1..n |-> Letters[(i % 7) + 1]]

\* A list of n embeds, the i-th pointing at the i-th media file.
Embeds(n) == [i \in 1..n |-> [image |-> [url |-> <<"media", i>>]]]

UsernameLens == {7, 81}

ContentLens == {0, 5, 2000, 3000}

EmbedCounts == {0, 1, 12}

AvatarUrls == {None, "http://host/ava/x.jpg"}

InitDelivery ==
    /\ SendIdle
    /\ QueueIdle
    /\ enable_cache = TRUE
    /\ cache = <<>>
    /\ store = EmptyTable
    /\ now = 0
    /\ writes = 0
    /\ lookups = 0
    /\ last = NoLookup
    /\ failedKeys = {}

\* send_to_discord_with_retry is called; the loop starts at attempt 0.
SendCall ==
    /\ pcSend = "idle"
    /\ \E url \in Urls, u \in UsernameLens, a \in AvatarUrls,
          c \in ContentLens, e \in EmbedCounts, m \in 1..MaxRetries :
        call' = [webhook_url |-> url, username |-> Text(u),
                 avatar_url |-> a, content |-> Text(c),
                 embeds |-> Embeds(e), max_retries |-> m]
    /\ pcSend' = "attempt"
    /\ attempt' = 0
    /\ outcomes' = <<>>
    /\ sleeps' = <<>>
    /\ ret' = "none"
    /\ lastAttempt' = NoAttempt
    /\ UNCHANGED notSend

\* The for loop moves on from iteration i: the next attempt, or past the
\* loop to "return False".
LoopNext(i) ==
    IF i + 1 < call.max_retries
    THEN /\ attempt' = i + 1
         /\ pcSend' = "attempt"
         /\ ret' = ret
    ELSE /\ attempt' = i
         /\ pcSend' = "done"
         /\ ret' = "False"

\* One iteration's "await self.send_to_discord(...)" and what follows it up
\* to the next await or the return.
SendAttempt ==
    /\ pcSend = "attempt"
    /\ \E resp \in AttemptInputs :
        \E r \in {IF resp = Raises
                  THEN [result |-> "Raise", posted |-> FALSE,
                        url |-> None, payload |-> <<>>]
                  ELSE send_to_discord(call.webhook_url, call.username,
                                       call.avatar_url, call.content,
                                       call.embeds, resp)} :
            /\ outcomes' = Append(outcomes, r.result)
            /\ lastAttempt' = [made |-> TRUE, resp |-> resp,
                               result |-> r.result, posted |-> r.posted,
                               url |-> r.url, payload |-> r.payload]
            /\ IF r.result = "True"
               THEN /\ ret' = "True"
                    /\ pcSend' = "done"
                    /\ UNCHANGED <<attempt, sleeps>>
               ELSE IF SleepsAfter(attempt, call.max_retries)
               THEN /\ sleeps' = Append(sleeps, WaitTime(attempt))
                    /\ pcSend' = "sleep"
                    /\ UNCHANGED <<attempt, ret>>
               ELSE /\ LoopNext(attempt)
                    /\ UNCHANGED sleeps
    /\ UNCHANGED call
    /\ UNCHANGED notSend

\* asyncio.sleep(wait_time) is over.
SleepDone ==
    /\ pcSend = "sleep"
    /\ LoopNext(attempt)
    /\ UNCHANGED <<call, outcomes, sleeps, lastAttempt>>
    /\ UNCHANGED notSend

NextDelivery == SendCall \/ SendAttempt \/ SleepDone

SpecDelivery == InitDelivery /\ [][NextDelivery]_vars

(***************************************************************************)
(* Claims about delivery (SpecDelivery)                                    *)
(***************************************************************************)
Failed(o) == o # "True"

IsPrefix(a, b) == Len(a) <= Len(b) /\ \A i \in 1..Len(a) : a[i] = b[i]

\* C7: delivery retry. With max_retries = 3, after two failed attempts a
\* third one is made; when it succeeds the call returns True having made
\* exactly 3 attempts, and the delay slept before attempt k+1 is k times the
\* backoff unit, so the delay before the 3rd exceeds the one before the 2nd.
C7_RetryThenSuccess ==
    /\ \A k \in 1..Len(sleeps) : sleeps[k] = k * BACKOFF_UNIT
    /\ (/\ call.max_retries = DEFAULT_MAX_RETRIES
        /\ Len(outcomes) = 2 /\ Failed(outcomes[1]) /\ Failed(outcomes[2]))
        => (pcSend \in {"sleep", "attempt"} /\ ret = "none")
    /\ (/\ call.max_retries = DEFAULT_MAX_RETRIES
        /\ Len(outcomes) = 3 /\ Failed(outcomes[1]) /\ Failed(outcomes[2])
        /\ outcomes[3] = "True")
        => /\ pcSend = "done"
           /\ ret = "True"
           /\ Len(sleeps) = 2
           /\ sleeps[2] > sleeps[1]

\* C7 witness: two failures, then a success, with max_retries = 3.
C7_Witness ==
    /\ pcSend = "done" /\ ret = "True"
    /\ call.max_retries = 3
    /\ outcomes = <<"False", "False", "True">>
    /\ sleeps = <<2, 4>>

\* C8: retry bound. At most max_retries attempts are made; no attempt follows
\* a successful one, which makes the call return True; the call returns
\* False exactly when max_retries attempts were made and all failed (by a
\* False result or by an exception); and a delay is slept only between two
\* attempts, never after the last.
C8_RetryBound ==
    pcSend # "idle" =>
        /\ Len(outcomes) <= call.max_retries
        /\ \A i \in 1..(Len(outcomes) - 1) : Failed(outcomes[i])
        /\ (outcomes # <<>> /\ outcomes[Len(outcomes)] = "True")
            => (pcSend = "done" /\ ret = "True")
        /\ Len(sleeps) <= Len(outcomes)
        /\ Len(sleeps) < call.max_retries
        /\ pcSend = "sleep" => Len(outcomes) < call.max_retries
        /\ pcSend # "done" => ret = "none"
        /\ pcSend = "done" =>
            /\ ret \in {"True", "False"}
            /\ outcomes # <<>>
            /\ ret = "True" <=> outcomes[Len(outcomes)] = "True"
            /\ ret = "False" <=>
                (/\ Len(outcomes) = call.max_retries
                 /\ \A i \in 1..Len(outcomes) : Failed(outcomes[i]))
            /\ Len(sleeps) = Len(outcomes) - 1

\* C8 witness: every one of 3 attempts failed, by False and by exception,
\* and the call returned False after 2 delays.
C8_Witness ==
    /\ pcSend = "done" /\ ret = "False"
    /\ call.max_retries = 3
    /\ Len(outcomes) = 3
    /\ \E i, j \in 1..3 : outcomes[i] = "False" /\ outcomes[j] = "Raise"
    /\ Len(sleeps) = 2

\* C9: a send attempt by send_to_discord gives True exactly when the POST
\* got status 200 or 204, and False for any other status, a timeout or a
\* transport error: never an exception.
C9_SendResult ==
    (lastAttempt.made /\ lastAttempt.resp \in Responses) =>
        /\ lastAttempt.result \in {"True", "False"}
        /\ lastAttempt.result = "True" <=>
            (/\ lastAttempt.resp.kind = "status"
             /\ lastAttempt.resp.status \in {200, 204})

\* C9 witness: the POST timed out and the attempt gave False.
C9_Witness ==
    /\ lastAttempt.made
    /\ lastAttempt.resp.kind = "timeout"
    /\ lastAttempt.result = "False"

\* C10: payload clamping. In every payload POSTed, username is the first
\* min(80, n) characters of the name, content (when present) the first
\* min(2000, n) characters of the text, embeds (when present) the first
\* min(10, n) embeds in their order.
C10_PayloadClamped ==
    lastAttempt.posted =>
        LET p == lastAttempt.payload
        IN  /\ Len(p["username"]) = Min(80, Len(call.username))
            /\ IsPrefix(p["username"], call.username)
            /\ "content" \in DOMAIN p =>
                /\ Len(p["content"]) = Min(2000, Len(call.content))
                /\ IsPrefix(p["content"], call.content)
            /\ "embeds" \in DOMAIN p =>
                /\ Len(p["embeds"]) = Min(10, Len(call.embeds))
                /\ IsPrefix(p["embeds"], call.embeds)

\* C10 witness: a text of 3000 characters was POSTed as 2000, 12 embeds as
\* 10, a name of 81 characters as 80.
C10_Witness ==
    /\ lastAttempt.posted
    /\ Len(call.content) = 3000
    /\ Len(lastAttempt.payload["content"]) = 2000
    /\ Len(call.embeds) = 12
    /\ Len(lastAttempt.payload["embeds"]) = 10
    /\ Len(call.username) = 81
    /\ Len(lastAttempt.payload["username"]) = 80

(***************************************************************************)
(* bot.py: the NewMessage handler, process_message_queue, handle_message   *)
(***************************************************************************)
hello == <<"h", "e", "l", "l", "o">>

\* The kinds of message that arrive: a plain text in a chat with a short
\* id; a photo in a topic, flagged as a reply to the topic header; a reply
\* with a reply-to-top id; an empty message flagged without a target id; a
\* text in a basic group, whose id is negative.
EventKinds ==
    {[chat_id |-> 1, reply_to |-> NoReply, text |-> hello,
      media |-> NoMedia, sender |-> AnnLee],
     [chat_id |-> -1001, reply_to |-> ReplyHeader(TRUE, 7, 5),
      text |-> hello, media |-> Photo, sender |-> AnnLee],
     [chat_id |-> -1001, reply_to |-> ReplyHeader(FALSE, 5, 5),
      text |-> <<>>, media |-> Document("video/mp4"), sender |-> DNews],
     [chat_id |-> -1001, reply_to |-> ReplyHeader(TRUE, NoneId, 5),
      text |-> <<>>, media |-> OtherMedia, sender |-> NoSender],
     [chat_id |-> -5, reply_to |-> NoReply, text |-> hello,
      media |-> NoMedia, sender |-> AnnLee]}

Event(id, kind) ==
    [id |-> id, chat_id |-> kind.chat_id, reply_to |-> kind.reply_to,
     text |-> kind.text, media |-> kind.media, sender |-> kind.sender]

\* What get_messages(chat_id, ids=5) may give for the replied-to message.
TopMessages ==
    {FetchRaises, FetchNone, Fetched(NoReply),
     Fetched(ReplyHeader(TRUE, 7, NoneId)),
     Fetched(ReplyHeader(TRUE, NoneId, NoneId)),
     Fetched(ReplyHeader(FALSE, 5, 7)),
     Fetched(ReplyHeader(FALSE, 5, NoneId))}

\* FloodWaitError.seconds
FloodSeconds == {30}

\* The routes of the forwarder at work: the general chat and topic 7 of
\* group -1001.
RoutedTable ==
    [EmptyTable EXCEPT ![<<-1001, 0>>] = "https://hook.example/a",
                       ![<<-1001, 7>>] = "https://hook.example/b"]

Init ==
    /\ SendIdle
    /\ QueueIdle
    /\ enable_cache = TRUE
    /\ cache = <<>>
    /\ store = RoutedTable
    /\ now = 0
    /\ writes = 0
    /\ lookups = 0
    /\ last = NoLookup
    /\ failedKeys = {}

\* The handler of events.NewMessage: await self.message_queue.put(event).
\* The queue was built by asyncio.Queue() with no maxsize, so put returns
\* at once whatever the depth.
Handler ==
    /\ received < MaxEvents
    /\ \E kind \in EventKinds :
        message_queue' = Append(message_queue, Event(received + 1, kind))
    /\ received' = received + 1
    /\ UNCHANGED <<pcWorker, event, hm, avatar_files, log>>
    /\ UNCHANGED <<cacheVars, sendVars>>

\* event = await self.message_queue.get()
WorkerGet_Lifo ==
    /\ pcWorker = "get"
    /\ message_queue # <<>>
    /\ event' = message_queue[Len(message_queue)]
    /\ message_queue' = SubSeq(message_queue, 1, Len(message_queue) - 1)
    /\ pcWorker' = "handle"
    /\ UNCHANGED <<received, hm, avatar_files, log>>
    /\ UNCHANGED <<cacheVars, sendVars>>

WorkerGet_Peek ==
    /\ pcWorker = "get"
    /\ message_queue # <<>>
    /\ event' = Head(message_queue)
    /\ message_queue' = message_queue
    /\ pcWorker' = "handle"
    /\ UNCHANGED <<received, hm, avatar_files, log>>
    /\ UNCHANGED <<cacheVars, sendVars>>

WorkerGet ==
    /\ pcWorker = "get"
    /\ message_queue # <<>>
    /\ event' = Head(message_queue)
    /\ message_queue' = Tail(message_queue)
    /\ pcWorker' = "handle"
    /\ UNCHANGED <<received, hm, avatar_files, log>>
    /\ UNCHANGED <<cacheVars, sendVars>>

\* handle_message returns, then task_done() and the sleep(0.5) begins; the
\* loop's variable still holds the event.
Return(outcome) ==
    /\ log' = Append(log, [id |-> event.id, outcome |-> outcome])
    /\ event' = event
    /\ pcWorker' = "sleep"

\* except FloodWaitError as e: await asyncio.sleep(e.seconds)
CatchFlood(locals, seconds) ==
    /\ hm' = [locals EXCEPT !.seconds = seconds]
    /\ pcWorker' = "flood_wait"
    /\ UNCHANGED <<event, log>>

\* "if not webhook_url": None and the empty string are both not found.
NotFound(webhook_url) == webhook_url = None \/ webhook_url = ""

\* handle_message from its first line to the route lookup (lines 142-212):
\* get_chat, the group id, the topic, get_webhook, and for a message with
\* no route get_all_webhooks_for_group and the return. tops is what
\* get_messages may give.
Resolve(tops) ==
    /\ pcWorker = "handle"
    /\ \/ \E seconds \in FloodSeconds :
            /\ CatchFlood(NoLocals, seconds)
            /\ UNCHANGED <<cache, now>>
       \/ /\ Return("error")
          /\ hm' = NoLocals
          /\ UNCHANGED <<cache, now>>
       \/ \E top_message \in tops, failing \in 0..max_retries_connect,
             execFail \in 0..2, failing2 \in 0..max_retries_connect :
            \E n \in {NormalizeChatId(event.chat_id)},
               d \in {DetectTopic(event.reply_to, top_message)} :
              IF ~n.ok
              THEN /\ top_message = FetchNone
                   /\ failing = 0 /\ execFail = 0 /\ failing2 = 0
                   /\ Return("error")
                   /\ hm' = NoLocals
                   /\ UNCHANGED <<cache, now>>
              ELSE \E r \in {get_webhook(cache, enable_cache, store, now,
                                         n.value, d.topic_id,
                                         failing, execFail)} :
                   /\ ~d.fetched => top_message = FetchNone
                   /\ InputsUsed(r, failing, execFail)
                   /\ ~NotFound(r.result) => failing2 = 0
                   /\ r.clock + get_connection(failing2).slept <= MaxTime
                   /\ cache' = r.cache
                   /\ hm' = [chat_id |-> n.value, topic_id |-> d.topic_id,
                             fetched |-> d.fetched,
                             top_message |-> top_message,
                             webhook_url |-> r.result,
                             lookup_failed |-> r.failed, photo |-> "none",
                             download |-> "none", seconds |-> 0]
                   /\ IF NotFound(r.result)
                      THEN /\ now' = r.clock + get_connection(failing2).slept
                           /\ Return("not_found")
                      ELSE /\ now' = r.clock
                           /\ pcWorker' = "prepare"
                           /\ UNCHANGED <<event, log>>
    /\ UNCHANGED <<message_queue, received, avatar_files>>
    /\ UNCHANGED <<enable_cache, store, writes, lookups, last, failedKeys>>
    /\ UNCHANGED sendVars

HandleResolve == Resolve(TopMessages)

\* handle_message from get_sender to the call of send_to_discord_with_retry
\* (lines 217-253): the sender's name, the avatar, content and embeds.
HandlePrepare ==
    /\ pcWorker = "prepare"
    /\ \/ \E seconds \in FloodSeconds :
            /\ CatchFlood(hm, seconds)
            /\ UNCHANGED <<sendVars, avatar_files>>
       \/ /\ Return("error")
          /\ UNCHANGED <<hm, sendVars, avatar_files>>
       \/ \E photo \in PhotoOutcomes, download \in DownloadOutcomes :
            LET sender_name == get_sender_name(event.sender)
                av == get_avatar_url(avatar_files, sender_name, photo)
                m == IF event.media # NoMedia
                     THEN handle_media(event.id, event.media, download)
                     ELSE [url |-> <<>>, downloaded |-> FALSE]
                p == Prepare(event.text, m.url)
            IN  /\ ~av.downloaded => photo = "written"
                /\ ~m.downloaded => download = "written"
                /\ avatar_files' = av.files
                /\ call' = [webhook_url |-> hm.webhook_url,
                            username |-> sender_name,
                            avatar_url |-> av.url,
                            content |-> p.content, embeds |-> p.embeds,
                            max_retries |-> DEFAULT_MAX_RETRIES]
                /\ pcSend' = "attempt"
                /\ attempt' = 0
                /\ outcomes' = <<>>
                /\ sleeps' = <<>>
                /\ ret' = "none"
                /\ lastAttempt' = NoAttempt
                /\ pcWorker' = "send"
                /\ hm' = [hm EXCEPT
                            !.photo = IF av.downloaded THEN photo ELSE "none",
                            !.download = IF m.downloaded
                                         THEN download ELSE "none"]
                /\ UNCHANGED <<event, log>>
    /\ UNCHANGED <<message_queue, received>>
    /\ UNCHANGED cacheVars

\* send_to_discord_with_retry has returned: success is logged either way.
HandleSent ==
    /\ pcWorker = "send"
    /\ pcSend = "done"
    /\ Return(IF ret = "True" THEN "delivered" ELSE "undelivered")
    /\ UNCHANGED <<message_queue, received, hm, avatar_files>>
    /\ UNCHANGED <<cacheVars, sendVars>>

\* The sleep of e.seconds is over and handle_message returns.
FloodWaitDone ==
    /\ pcWorker = "flood_wait"
    /\ Return("flood")
    /\ UNCHANGED <<message_queue, received, hm, avatar_files>>
    /\ UNCHANGED <<cacheVars, sendVars>>

\* asyncio.sleep(0.5) is over: the loop goes back to message_queue.get();
\* the event and the locals of the message just handled are gone.
WorkerWake ==
    /\ pcWorker = "sleep"
    /\ pcWorker' = "get"
    /\ hm' = NoLocals
    /\ call' = NoCall
    /\ pcSend' = "idle"
    /\ attempt' = 0
    /\ outcomes' = <<>>
    /\ sleeps' = <<>>
    /\ ret' = "none"
    /\ lastAttempt' = NoAttempt
    /\ event' = NoEvent
    /\ UNCHANGED <<message_queue, received, avatar_files, log>>
    /\ UNCHANGED cacheVars

\* The clock moves here only by the sleeps of get_connection's retries; the
\* expiry of cache entries as time passes is explored by SpecCache.
Next ==
    \/ Handler
    \/ WorkerGet
    \/ HandleResolve
    \/ HandlePrepare
    \/ SendAttempt
    \/ SleepDone
    \/ HandleSent
    \/ FloodWaitDone
    \/ WorkerWake

Spec == Init /\ [][Next]_vars

(***************************************************************************)
(* Claims about the queue and the worker (Spec)                            *)
(***************************************************************************)
\* Events given to the handler that are neither in the queue nor taken from
\* it by the worker (handled already, or being handled).
Dropped ==
    received - Len(message_queue) - Len(log)
        - (IF pcWorker \in {"get", "sleep"} THEN 0 ELSE 1)

\* C6: Queue backpressure. The queue depth never exceeds the capacity
\* QUEUE_MAX_SIZE, and when capacity + 1 events have been offered while the
\* worker has consumed none, exactly one of them has been dropped.
C6_QueueBackpressure ==
    /\ Len(message_queue) <= QUEUE_MAX_SIZE
    /\ (received = QUEUE_MAX_SIZE + 1 /\ event = NoEvent /\ log = <<>>)
          => Dropped = 1

\* The outcome logged for the message handle_message has just returned from.
LastOutcome == log[Len(log)].outcome

\* The worker holds a plain text message "hello" of the chat with the short
\* id 1, whose route (-1001, 0) leads to endpoint a.
PlainHello ==
    /\ pcWorker \in {"handle", "prepare", "send", "flood_wait", "sleep"}
    /\ event.chat_id = 1
    /\ event.reply_to = NoReply
    /\ event.text = hello
    /\ event.media = NoMedia

Answered2xx(a) == a.resp.kind = "status" /\ a.resp.status \in {200, 204}

\* C11: End to end. For a plain "hello" of group 1 with the route
\* (-1001, 0) -> a configured: unless a source call raises or the store
\* lookup fails, the message is handed to delivery for endpoint a with
\* content "hello" and no embeds; and when the first POST is answered 200
\* or 204, delivery ends there, with that one POST, made to a, whose
\* payload has content "hello" and no embeds key.
C11_EndToEnd ==
    /\ (PlainHello /\ pcWorker = "sleep"
          /\ LastOutcome \notin {"error", "flood"} /\ ~hm.lookup_failed)
          => /\ outcomes # <<>>
             /\ call.webhook_url = "https://hook.example/a"
             /\ call.content = hello
             /\ call.embeds = <<>>
    /\ (PlainHello /\ pcWorker = "send" /\ Len(outcomes) = 1
          /\ Answered2xx(lastAttempt))
          => /\ pcSend = "done"
             /\ ret = "True"
             /\ lastAttempt.posted
             /\ lastAttempt.url = "https://hook.example/a"
             /\ "content" \in DOMAIN lastAttempt.payload
             /\ lastAttempt.payload["content"] = hello
             /\ "embeds" \notin DOMAIN lastAttempt.payload

C11_Witness ==
    /\ PlainHello
    /\ pcWorker = "sleep"
    /\ LastOutcome = "delivered"
    /\ Len(outcomes) = 1
    /\ lastAttempt.resp.status = 204
    /\ lastAttempt.payload["content"] = hello

(***************************************************************************)
(* handle_message up to the route lookup, over every shape of reply        *)
(* metadata: the worker has just taken one message from the queue          *)
(***************************************************************************)
\* Message ids a reply header may carry: none, a message of the topic, the
\* topic's header.
ReplyIds == {NoneId, 5, 7}

AllReplies ==
    {NoReply} \cup {ReplyHeader(f, m, t) :
                        f \in BOOLEAN, m \in ReplyIds, t \in ReplyIds}

AllTopMessages ==
    {FetchRaises, FetchNone} \cup {Fetched(reply) : reply \in AllReplies}

\* event.chat_id: a short positive id, a fully qualified one, a basic
\* group's negative id.
ChatIds == {1, -1001, -5}

InitTopic ==
    /\ SendIdle
    /\ message_queue = <<>>
    /\ received = 1
    /\ pcWorker = "handle"
    /\ \E chat_id \in ChatIds, reply \in AllReplies :
        event = [id |-> 1, chat_id |-> chat_id, reply_to |-> reply,
                 text |-> hello, media |-> NoMedia, sender |-> AnnLee]
    /\ hm = NoLocals
    /\ avatar_files = InitialFiles
    /\ log = <<>>
    /\ enable_cache = TRUE
    /\ cache = <<>>
    /\ store = RoutedTable
    /\ now = 0
    /\ writes = 0
    /\ lookups = 0
    /\ last = NoLookup
    /\ failedKeys = {}

ResolveTopic == Resolve(AllTopMessages)

SpecTopic == InitTopic /\ [][ResolveTopic]_vars

(***************************************************************************)
(* Claims about the topic and the group id (SpecTopic)                     *)
(***************************************************************************)
\* handle_message has got past get_webhook: its locals are assigned.
LookupDone == hm.chat_id # 0

\* The message's reply metadata is not flagged as a reply to a topic header
\* and carries the reply-to-top id X.
ReplyToTop(X) ==
    /\ event.reply_to.present
    /\ ~event.reply_to.forum_topic
    /\ Truthy(X)
    /\ event.reply_to.reply_to_top_id = X

\* The message fetched for the reply-to-top id is itself a reply to the
\* topic header T: flagged with target T, or unflagged further up a chain
\* whose top is T.
FetchedRepliesTo(T) ==
    /\ hm.fetched
    /\ hm.top_message.kind = "message"
    /\ hm.top_message.reply_to.present
    /\ Truthy(T)
    /\ IF hm.top_message.reply_to.forum_topic
       THEN hm.top_message.reply_to.reply_to_msg_id = T
       ELSE hm.top_message.reply_to.reply_to_top_id = T

\* The route lookup was made for topic T: it is the topic handle_message
\* holds, and the key get_webhook wrote to the cache unless it failed.
LookedUp(T) ==
    /\ hm.topic_id = T
    /\ ~hm.lookup_failed => CacheKey(hm.chat_id, T) \in DOMAIN cache

\* C12: Topic tracing. A message that is not flagged as a topic-header
\* reply and has reply-to-top id X, where the fetched message X is itself
\* a reply to topic header T, is looked up with topic T.
C12_TopicTracing ==
    \A X \in ReplyIds, T \in ReplyIds :
        (LookupDone /\ ReplyToTop(X) /\ FetchedRepliesTo(T)) => LookedUp(T)

C12_Witness ==
    /\ pcWorker = "prepare"
    /\ ReplyToTop(5)
    /\ FetchedRepliesTo(7)
    /\ hm.top_message.reply_to.forum_topic
    /\ hm.topic_id = 7
    /\ hm.webhook_url = "https://hook.example/b"

\* The message's reply metadata is flagged as a reply to a topic header and
\* carries the target message id M.
FlaggedTarget(M) ==
    /\ event.reply_to.present
    /\ event.reply_to.forum_topic
    /\ Truthy(M)
    /\ event.reply_to.reply_to_msg_id = M

\* C13: Topic rule 1. When the reply metadata is flagged as a reply to a
\* topic header and carries the target id M, the lookup is made with topic
\* M whatever reply-to-top id is also present, and no message is fetched.
C13_FlaggedTargetWins ==
    \A M \in ReplyIds :
        (LookupDone /\ FlaggedTarget(M)) => (LookedUp(M) /\ ~hm.fetched)

C13_Witness ==
    /\ pcWorker = "prepare"
    /\ FlaggedTarget(7)
    /\ event.reply_to.reply_to_top_id = 5
    /\ hm.topic_id = 7
    /\ ~hm.fetched

\* C14: Topic fallback. When the reply-to-top id C is the candidate and
\* the verification is unavailable or fails (get_messages raises, or gives
\* no message for C), the lookup is made with topic C.
C14_FallbackToCandidate ==
    \A C \in ReplyIds :
        (LookupDone /\ ReplyToTop(C)
            /\ hm.top_message.kind \in {"raises", "none"})
            => LookedUp(C)

\* The message's reply metadata is flagged as a reply to a topic header,
\* carries no target message id, and carries the reply-to-top id C.
FlaggedNoTarget(C) ==
    /\ event.reply_to.present
    /\ event.reply_to.forum_topic
    /\ ~Truthy(event.reply_to.reply_to_msg_id)
    /\ Truthy(C)
    /\ event.reply_to.reply_to_top_id = C

\* Neither rule applies to the message: it has no reply metadata, or
\* metadata with neither a flagged target nor a reply-to-top id.
NeitherRule ==
    \/ ~event.reply_to.present
    \/ /\ ~(event.reply_to.forum_topic
              /\ Truthy(event.reply_to.reply_to_msg_id))
       /\ ~Truthy(event.reply_to.reply_to_top_id)

\* C20: First applicable rule wins. A message flagged as a topic-header
\* reply without a target id and with reply-to-top id C is resolved by
\* rule 2 from C (message C is fetched and the topic is not 0); the topic
\* is 0 only when neither rule applies.
C20_FirstApplicableRule ==
    /\ \A C \in ReplyIds :
           (LookupDone /\ FlaggedNoTarget(C))
               => (hm.fetched /\ Truthy(hm.topic_id))
    /\ (LookupDone /\ hm.topic_id = 0) => NeitherRule

\* C21: Resolved topic is a non-negative integer. Whatever the reply
\* metadata of the message and of the fetched message, the topic id given
\* to the route lookup is an integer >= 0: never None, never the wildcard.
C21_TopicNonNegative ==
    LookupDone => (hm.topic_id \in Nat /\ hm.topic_id # NoneId
                      /\ hm.topic_id # WILDCARD)

(***************************************************************************)
(* Claims about the worker and handle_message (Spec)                       *)
(***************************************************************************)
\* The statistics the program keeps. bot.py has no counter of any kind:
\* a message with no route is logged ("NOT FOUND") and nothing is counted.
skipped == 0

\* How many of the messages handled so far ended with the given outcome.
Ended(outcome) ==
    Cardinality({i \in 1..Len(log) : log[i].outcome = outcome})

\* handle_message has just returned because the lookup gave no endpoint.
SkippedNow == pcWorker = "sleep" /\ LastOutcome = "not_found"

\* No sender fetch, no download and no POST were made for the message: no
\* call of send_to_discord_with_retry was prepared or begun.
NothingSent == call = NoCall /\ outcomes = <<>> /\ lastAttempt = NoAttempt

\* C15: Not found is a skip. A message whose route lookup returns no
\* endpoint is counted as skipped, and its processing ends there: nothing
\* is fetched or posted for it and the worker goes on with its loop.
C15_NotFoundIsSkip ==
    /\ skipped = Ended("not_found")
    /\ SkippedNow => NothingSent

\* The count of failed messages: as for skipped, the program keeps none.
\* An exception is logged by "except Exception" (line 265) and a delivery
\* that failed on every retry by line 258; nothing is counted.
failed == 0

\* Where process_message_queue can stand while its loop is running.
LoopStates == {"get", "handle", "prepare", "send", "flood_wait", "sleep"}

\* C16: Worker survival. Whatever happens to one message (an exception in
\* a fetch or the lookup, a delivery failing on every retry), the failure
\* is counted as failed and the worker's loop goes on: after a failed
\* message the worker is in its loop, on its way to the next get().
C16_WorkerSurvives ==
    /\ pcWorker \in LoopStates
    /\ failed = Ended("error") + Ended("undelivered")
    /\ (pcWorker = "sleep" /\ LastOutcome \in {"error", "undelivered"})
          => ENABLED WorkerWake

\* handle_message has handed the message to send_to_discord_with_retry.
Handed == pcWorker \in {"send", "sleep"} /\ call # NoCall

\* C17: A media or avatar failure never aborts delivery. For a routed
\* message whose media download raises, the message is handed to delivery
\* for its endpoint with its text as content and no embed; when the avatar
\* download raises, with no avatar_url; and what is posted carries no
\* embeds key, or no avatar_url key, accordingly.
C17_DownloadFailureStillDelivers ==
    /\ (pcWorker \in {"send", "sleep"}
          /\ (hm.download = "raises" \/ hm.photo = "raises"))
          => /\ call # NoCall
             /\ call.webhook_url = hm.webhook_url
             /\ ~NotFound(call.webhook_url)
    /\ (Handed /\ hm.download = "raises")
          => /\ call.embeds = <<>>
             /\ call.content = event.text
             /\ lastAttempt.posted
                   => "embeds" \notin DOMAIN lastAttempt.payload
    /\ (Handed /\ hm.photo = "raises")
          => /\ call.avatar_url = None
             /\ lastAttempt.posted
                   => "avatar_url" \notin DOMAIN lastAttempt.payload
    /\ (pcWorker = "sleep"
          /\ (hm.download = "raises" \/ hm.photo = "raises"))
          => /\ outcomes # <<>>
             /\ LastOutcome \in {"delivered", "undelivered"}

C17_Witness ==
    /\ pcWorker = "sleep"
    /\ hm.download = "raises"
    /\ hm.photo = "raises"
    /\ event.text = hello
    /\ LastOutcome = "delivered"
    /\ lastAttempt.payload["content"] = hello
    /\ DOMAIN lastAttempt.payload = {"username", "content"}

\* The fully qualified form of a chat id: itself when it starts with -100,
\* else the integer written as -100 followed by the id's digits.
Qualified(chat_id) ==
    IF StartsWith(IntStr(chat_id), Minus100) THEN chat_id
    ELSE 0 - NatValue(<<"1", "0", "0">>
                        \o NatStr(IF chat_id < 0 THEN 0 - chat_id
                                  ELSE chat_id))

\* C18: Group id normalisation. For every chat id the message in hand may
\* carry, normalising it does not fail, and the route lookup is made with
\* the fully qualified id.
C18_GroupIdNormalized ==
    /\ pcWorker = "handle" => NormalizeChatId(event.chat_id).ok
    /\ LookupDone => hm.chat_id = Qualified(event.chat_id)

\* Sends in flight: the worker stands in "await self.send_to_discord(...)",
\* its POST begun and not yet answered. There is one worker, hence one
\* call of send_to_discord_with_retry at a time.
InFlight == IF pcSend = "attempt" THEN 1 ELSE 0

\* Permits of a delivery limiter held by the sends in flight. Neither
\* send_to_discord_with_retry nor send_to_discord acquires anything: the
\* program has no semaphore, and DISCORD_RATE_LIMIT is read nowhere.
PermitsHeld == 0

\* C19: Delivery concurrency limit. The sends in flight are never more
\* than DISCORD_RATE_LIMIT, because each of them holds a permit of the one
\* shared limiter.
C19_DeliveryLimit ==
    /\ InFlight <= DISCORD_RATE_LIMIT
    /\ InFlight <= PermitsHeld

\* The message in hand has an entry in the log: handle_message has returned
\* for it.
Logged(id) == \E i \in 1..Len(log) : log[i].id = id

\* The worker sleeps in "except FloodWaitError" for the seconds signalled,
\* inside handle_message: the message in hand has not returned.
PausedFor(seconds) ==
    /\ pcWorker = "flood_wait"
    /\ hm.seconds = seconds
    /\ ~Logged(event.id)

\* C22: Rate-limit pause. A FloodWait of s seconds pauses the message in
\* hand, by a sleep of s before handle_message returns, and nothing else:
\* while the sleep lasts a queued message can still be taken for
\* processing.
C22_FloodPausesOneMessage ==
    pcWorker = "flood_wait" =>
        /\ \E seconds \in FloodSeconds : PausedFor(seconds)
        /\ message_queue # <<>> => ENABLED WorkerGet

(***************************************************************************)
(* The pipeline under fair scheduling (FairSpec)                           *)
(***************************************************************************)
\* The steps of the one worker task. The event loop resumes a task whose
\* await has completed, and each await of the worker completes: the POST
\* has a total timeout, the sleeps end, get() returns once the queue has an
\* item.
Worker ==
    \/ WorkerGet
    \/ HandleResolve
    \/ HandlePrepare
    \/ SendAttempt
    \/ SleepDone
    \/ HandleSent
    \/ FloodWaitDone
    \/ WorkerWake

FairSpec == Init /\ [][Next]_vars /\ WF_vars(Worker)

\* The message ids the handler can have given out.
EventIds == 1..MaxEvents

\* In how many places message i is: waiting in the queue, in the worker's
\* hands, returned from handle_message.
Places(i) ==
    Cardinality({k \in DOMAIN message_queue : message_queue[k].id = i})
      + (IF event.id = i /\ pcWorker \notin {"get", "sleep"} THEN 1 ELSE 0)
      + Cardinality({k \in DOMAIN log : log[k].id = i})

\* The terminal state an outcome of handle_message stands for: no route is
\* Skipped, a delivery that returned True is Delivered, and an exception, a
\* FloodWait or a delivery that returned False leave the message
\* undelivered.
Terminal(outcome) ==
    IF outcome = "not_found" THEN "Skipped"
    ELSE IF outcome = "delivered" THEN "Delivered"
    ELSE "Failed"

\* Where message i stands in the state machine of a message. The topic
\* detection and the route lookup are one step of the worker, so Resolved
\* is passed within that step; a worker sleeping out a FloodWait is still
\* where the exception found it.
Phase(i) ==
    IF i > received THEN "None"
    ELSE IF \E k \in DOMAIN message_queue : message_queue[k].id = i
    THEN "Queued"
    ELSE IF \E k \in DOMAIN log : log[k].id = i
    THEN Terminal(log[CHOOSE k \in DOMAIN log : log[k].id = i].outcome)
    ELSE IF event.id = i /\ pcWorker = "handle" THEN "Dequeued"
    ELSE IF event.id = i /\ pcWorker = "prepare" THEN "Routed"
    ELSE IF event.id = i /\ pcWorker = "send" THEN "Delivering"
    ELSE IF event.id = i /\ pcWorker = "flood_wait"
    THEN IF NotFound(hm.webhook_url) THEN "Dequeued" ELSE "Routed"
    ELSE "Dropped"

Terminals == {"Dropped", "Skipped", "Delivered", "Failed"}

\* Received -> Queued -> (Dropped | Dequeued) -> Resolved -> Routed ->
\* (Skipped | Delivering) -> (Delivered | Failed), as steps between the
\* phases a state shows.
ChainEdges ==
    {<<"None", "Queued">>, <<"None", "Dropped">>, <<"Queued", "Dropped">>,
     <<"Queued", "Dequeued">>, <<"Dequeued", "Routed">>,
     <<"Dequeued", "Skipped">>, <<"Routed", "Delivering">>,
     <<"Delivering", "Delivered">>, <<"Delivering", "Failed">>}

\* The exits of "except FloodWaitError" and "except Exception" around the
\* whole of handle_message: a message can end undelivered before its route
\* is known, and before it is handed to delivery.
ExceptEdges == {<<"Dequeued", "Failed">>, <<"Routed", "Failed">>}

\* Every message's phase stays, or moves along one of the edges.
Follows(edges) ==
    \A i \in EventIds : Phase(i)' = Phase(i) \/ <<Phase(i), Phase(i)'>> \in edges

\* Each message received is in exactly one place: not shared, not queued
\* again, not handled twice, not lost.
ExactlyOnce ==
    \A i \in EventIds : Places(i) = IF i <= received THEN 1 ELSE 0

\* Under fair scheduling a queued message reaches a terminal state.
EachTerminates ==
    \A i \in EventIds : (Phase(i) = "Queued") ~> (Phase(i) \in Terminals)

InHand == pcWorker # "get"

\* C24: FIFO within the queue. Messages are taken for processing in the
\* order in which the handler enqueued them: the queue holds them in that
\* order, the message in the worker's hands was enqueued before every
\* message still queued, and processing began for the messages already
\* handled in that order, before the one in hand.
C24_Fifo ==
    /\ \A k \in DOMAIN message_queue :
          /\ k > 1 => message_queue[k - 1].id < message_queue[k].id
          /\ InHand => event.id < message_queue[k].id
          /\ \A j \in DOMAIN log : log[j].id < message_queue[k].id
    /\ \A j \in DOMAIN log :
          /\ j > 1 => log[j - 1].id < log[j].id
          /\ InHand => log[j].id <= event.id

C24_Witness ==
    /\ pcWorker = "handle"
    /\ event.id = 1
    /\ Len(message_queue) = 1
    /\ message_queue[1].id = 2
    /\ log = <<>>

\* The URL get_avatar_url builds for the sender of the message in hand.
SenderAvatarUrl == AvatarUrl(SafeName(call.username))

\* The state of the sender's avatar file once get_avatar_url has returned.
SenderFile == avatar_files[SafeName(call.username)]

\* get_avatar_url awaited download_profile_photo before it returned;
\* hm.photo is then what the download gave.
AwaitedDownload == hm.photo # "none"

HasBody(payload) ==
    \/ "content" \in DOMAIN payload /\ payload["content"] # <<>>
    \/ "embeds" \in DOMAIN payload /\ payload["embeds"] # <<>>

\* C26: Non-empty payload. Every payload posted to an endpoint has a
\* non-empty content or a non-empty embeds list; none carries only the
\* username and the avatar_url.
C26_NonEmptyPayload ==
    (pcWorker \in {"send", "sleep"} /\ lastAttempt.posted)
        => HasBody(lastAttempt.payload)

====
